---- MODULE Spec2Model ----
(***************************************************************************)
(* ada_calc: the staking calculator of src/main.rs.                        *)
(*                                                                         *)
(* main() loads pool.json, runs calculate_staked_pool day by day and       *)
(* prints a final summary line.  The model follows one run of the tool:    *)
(* the outcome of loading the configuration, the locals of                 *)
(* calculate_staked_pool as the day loop advances, the returned            *)
(* StakedCardanoPoolResult, the summary line and the process exit code.    *)
(*                                                                         *)
(* An f64 is modelled as a pair <<n, d>>: the exact rational n/d in lowest *)
(* terms when d > 0, and the IEEE specials when d = 0 (<<1,0>> = +inf,     *)
(* <<-1,0>> = -inf, <<0,0>> = NaN).  Rounding of the mantissa and the sign *)
(* of zero are not modelled.  The progress lines (--verbose) and the CSV   *)
(* export (--generate_csv), which read the locals and change none of them, *)
(* are left out, as is the content of the SVG file.                        *)
(***************************************************************************)
EXTENDS Integers, Sequences, FiniteSets, TLC

\* The largest years_holding the model runs.
MaxYears == 3

----------------------------------------------------------------------------
(* f64 arithmetic *)

Abs(n) == IF n < 0 THEN -n ELSE n

Sign(n) == IF n < 0 THEN -1 ELSE IF n > 0 THEN 1 ELSE 0

RECURSIVE GCD(_, _)
GCD(a, b) == IF b = 0 THEN a ELSE GCD(b, a % b)

NaN == <<0, 0>>

Inf(s) == <<s, 0>>

IsNaN(x) == x[2] = 0 /\ x[1] = 0

IsInf(x) == x[2] = 0 /\ x[1] # 0

IsFinite(x) == x[2] > 0

IsZero(x) == x[2] > 0 /\ x[1] = 0

\* The finite value n/d (d > 0) in lowest terms.
Norm(n, d) ==
    LET g == GCD(Abs(n), d)
    IN  <<n \div g, d \div g>>

\* `k as f64` for an unsigned integer k.
FromU64(k) == <<k, 1>>

FMul(a, b) ==
    IF IsNaN(a) \/ IsNaN(b) THEN NaN
    ELSE IF IsInf(a) \/ IsInf(b)
         THEN IF a[1] = 0 \/ b[1] = 0 THEN NaN
              ELSE Inf(Sign(a[1]) * Sign(b[1]))
    ELSE LET g1 == GCD(Abs(a[1]), b[2])
             g2 == GCD(Abs(b[1]), a[2])
         IN  Norm((a[1] \div g1) * (b[1] \div g2), (a[2] \div g2) * (b[2] \div g1))

FDiv(a, b) ==
    IF IsNaN(a) \/ IsNaN(b) THEN NaN
    ELSE IF IsInf(a)
         THEN IF IsInf(b) THEN NaN
              ELSE Inf(Sign(a[1]) * (IF b[1] < 0 THEN -1 ELSE 1))
    ELSE IF IsInf(b) THEN <<0, 1>>
    ELSE IF b[1] = 0
         THEN IF a[1] = 0 THEN NaN ELSE Inf(Sign(a[1]))
    ELSE FMul(a, <<Sign(b[1]) * b[2], Abs(b[1])>>)

FAdd(a, b) ==
    IF IsNaN(a) \/ IsNaN(b) THEN NaN
    ELSE IF IsInf(a)
         THEN IF IsInf(b) /\ a[1] # b[1] THEN NaN ELSE a
    ELSE IF IsInf(b) THEN b
    ELSE LET g == GCD(a[2], b[2])
         IN  Norm(a[1] * (b[2] \div g) + b[1] * (a[2] \div g), (a[2] \div g) * b[2])

\* a <= b on f64: false as soon as one side is NaN.
FLeq(a, b) ==
    IF IsNaN(a) \/ IsNaN(b) THEN FALSE
    ELSE IF a = b THEN TRUE
    ELSE IF IsInf(a) THEN a[1] < 0
    ELSE IF IsInf(b) THEN b[1] > 0
    ELSE a[1] * b[2] <= b[1] * a[2]

\* `x as u64` for a non-negative finite f64: the fraction is dropped.
AsU64(x) == x[1] \div x[2]

\* What the `{:.2}` formatter writes for an f64.
Display(x) ==
    IF IsNaN(x) THEN "NaN"
    ELSE IF IsInf(x) THEN (IF x[1] > 0 THEN "inf" ELSE "-inf")
    ELSE "number"

\* The literal 365.25.
DaysPerYear == <<1461, 4>>

\* The literal 100.0.
Hundred == <<100, 1>>

----------------------------------------------------------------------------
(* The run of the tool *)

VARIABLES
    pc,               \* where main() is: "main", "loop", "summary", "exit"
    load,             \* what pool.json holds: "absent", "malformed", "ok"
    pool,             \* the StakedCardanoPool parsed from pool.json
    args,             \* the CommandOptions
    ada,              \* calculate_staked_pool: let mut ada
    price,            \* let mut price
    days,             \* let days
    epochs_per_year,  \* let epochs_per_year
    ada_per_year,     \* let mut ada_per_year
    day,              \* the loop variable of `for day in 1..days`
    adas,             \* let mut adas: Vec<f64>
    prices,           \* let mut prices: Vec<f64>
    result,           \* the StakedCardanoPoolResult main() receives
    stdout,           \* the last line main() wrote: "", "not found", "final result"
    gainz,            \* the f64 written in the Gainz field of the final line
    files,            \* the output files written to disk
    exit_code         \* the exit status of the process once pc = "exit"

vars == <<pc, load, pool, args, ada, price, days, epochs_per_year, ada_per_year,
          day, adas, prices, result, stdout, gainz, files, exit_code>>

locals == <<ada, price, days, epochs_per_year, ada_per_year, day, adas, prices>>

Zero == <<0, 1>>

\* epoch_in_days of the configurations explored.
Epochs == {0, 5, 100, 487}

\* annual_yield of the configurations explored, by epoch length.  The gain of
\* one payout is annual_yield * epoch_in_days / 365.25 of the balance; the
\* values keep the balance after every payout of the run within TLC's integers.
AnnualYields(e) ==
    CASE e = 0   -> {<<1, 20>>}
      [] e = 5   -> {Zero, <<-1461, 20>>}
      [] e = 100 -> {<<-1461, 800>>, <<1461, 400>>}
      [] OTHER   -> {<<-1, 20>>, <<1, 20>>}

StakedCardanoPool ==
    UNION {
        [ada : {Zero, <<1000, 1>>},
         fetch_price_via_api : {FALSE},
         initial_price : {<<5, 2>>},
         price_yield : {Zero, <<1, 1>>, <<-1, 1>>},
         annual_yield : AnnualYields(e),
         epoch_in_days : {e},
         years_holding : 0..MaxYears] : e \in Epochs}

CommandOptions == [generate_graph : BOOLEAN]

\* #[derive(Default)] of StakedCardanoPoolResult.
DefaultResult ==
    [final_ada_amount |-> Zero, final_ada_price |-> Zero,
     amount_historical |-> <<>>, price_historical |-> <<>>, days_as_float |-> Zero]

NewResult(final_ada_amount, final_ada_price, amount_historical, price_historical, d) ==
    [final_ada_amount |-> final_ada_amount, final_ada_price |-> final_ada_price,
     amount_historical |-> amount_historical, price_historical |-> price_historical,
     days_as_float |-> FromU64(d)]

Total(r) == FMul(r.final_ada_amount, r.final_ada_price)

YieldAsPercentage(r, pool_info) ==
    FMul(FDiv(Total(r), FMul(pool_info.initial_price, pool_info.ada)), Hundred)

\* Days with the product rounded to the nearest integer before the cast.
Days_Rounded(years_holding) ==
    AsU64(FAdd(FMul(FromU64(years_holding), DaysPerYear), <<1, 2>>)) + 1

\* let days = ((pool.years_holding as f64) * 365.25) as u64 + 1
Days(years_holding) == AsU64(FMul(FromU64(years_holding), DaysPerYear)) + 1

EpochsPerYear(epoch_in_days) == FDiv(DaysPerYear, FromU64(epoch_in_days))

\* InRange for the inclusive range `1..=days`.
InRange_Inclusive(d, n) == d <= n

\* `for day in 1..days`: the body runs while day < days.
InRange(d, n) == d < n

\* IsPayDay with the pay day one day late.
IsPayDay_DayLate(d, epoch_in_days) == d > 0 /\ d % epoch_in_days = 1 % epoch_in_days

\* day > 0 && (day % pool.epoch_in_days) == 0
IsPayDay(d, epoch_in_days) == d > 0 /\ d % epoch_in_days = 0

\* Payout with `=` in place of `+=`: the reward replaces the balance.
Payout_Assigned(a, per_year, per_epoch) == FDiv(per_year, per_epoch)

\* ada += ada_per_year / epochs_per_year
Payout(a, per_year, per_epoch) == FAdd(a, FDiv(per_year, per_epoch))

\* RewardAfterPayout with ada_per_year left at its value before the payout.
RewardAfterPayout_Stale(a, per_year, annual_yield) == per_year

\* ada_per_year = ada * pool.annual_yield, after a payout
RewardAfterPayout(a, per_year, annual_yield) == FMul(a, annual_yield)

\* PayDayPrice with the multiplication left out of the pay-day branch.
PayDayPrice_Skipped(p, price_yield) == p

\* price *= pool.price_yield, on a pay day
PayDayPrice(p, price_yield) == FMul(p, price_yield)

\* price *= pool.price_yield, on any other day
OtherDayPrice(p, price_yield) == FMul(p, price_yield)

\* Push without the test of the flag.
Push_Unconditional(v, x, generate_graph) == Append(v, x)

\* if args.generate_graph { v.push(x) }
Push(v, x, generate_graph) == IF generate_graph THEN Append(v, x) ELSE v

Init ==
    /\ pc = "main"
    /\ load \in {"absent", "malformed", "ok"}
    /\ pool \in StakedCardanoPool
    /\ args \in CommandOptions
    /\ ada = Zero
    /\ price = Zero
    /\ days = 0
    /\ epochs_per_year = Zero
    /\ ada_per_year = Zero
    /\ day = 0
    /\ adas = <<>>
    /\ prices = <<>>
    /\ result = DefaultResult
    /\ stdout = ""
    /\ gainz = Zero
    /\ files = {}
    /\ exit_code = 0

\* main: read_to_string("pool.json") fails; the else branch prints and main returns.
MainNoFile ==
    /\ pc = "main"
    /\ load = "absent"
    /\ pc' = "exit"
    /\ stdout' = "not found"
    /\ exit_code' = 0
    /\ UNCHANGED <<load, pool, args, locals, result, gainz, files>>

\* main: serde_json::from_str(..).unwrap() panics on a malformed document.
MainBadJson ==
    /\ pc = "main"
    /\ load = "malformed"
    /\ pc' = "exit"
    /\ exit_code' = 101
    /\ UNCHANGED <<load, pool, args, locals, result, stdout, gainz, files>>

\* calculate_staked_pool up to the loop.
CalcBegin ==
    /\ pc = "main"
    /\ load = "ok"
    /\ ada' = pool.ada
    /\ price' = pool.initial_price
    /\ days' = Days(pool.years_holding)
    /\ epochs_per_year' = EpochsPerYear(pool.epoch_in_days)
    /\ ada_per_year' = FMul(pool.ada, pool.annual_yield)
    /\ adas' = <<>>
    /\ prices' = <<>>
    /\ day' = 1
    /\ pc' = "loop"
    /\ UNCHANGED <<load, pool, args, result, stdout, gainz, files, exit_code>>

\* One iteration of the loop with a non-zero epoch_in_days.
RunDay ==
    /\ pc = "loop"
    /\ InRange(day, days)
    /\ pool.epoch_in_days # 0
    /\ adas' = Push(adas, ada, args.generate_graph)
    /\ prices' = Push(prices, price, args.generate_graph)
    /\ IF IsPayDay(day, pool.epoch_in_days)
       THEN /\ ada' = Payout(ada, ada_per_year, epochs_per_year)
            /\ ada_per_year' = RewardAfterPayout(ada', ada_per_year, pool.annual_yield)
            /\ price' = PayDayPrice(price, pool.price_yield)
       ELSE /\ price' = OtherDayPrice(price, pool.price_yield)
            /\ UNCHANGED <<ada, ada_per_year>>
    /\ day' = day + 1
    /\ UNCHANGED <<pc, load, pool, args, days, epochs_per_year, result, stdout,
                   gainz, files, exit_code>>

\* One iteration with epoch_in_days = 0: `day % 0` panics (the `day > 0` before
\* it is true for every day of the range), after the pushes of this iteration.
DayPanics ==
    /\ pc = "loop"
    /\ InRange(day, days)
    /\ pool.epoch_in_days = 0
    /\ adas' = Push(adas, ada, args.generate_graph)
    /\ prices' = Push(prices, price, args.generate_graph)
    /\ pc' = "exit"
    /\ exit_code' = 101
    /\ UNCHANGED <<load, pool, args, ada, price, days, epochs_per_year, ada_per_year,
                   day, result, stdout, gainz, files>>

\* After the loop: the result is built from the locals, the vectors moved
\* into it.
CalcReturn ==
    /\ pc = "loop"
    /\ ~InRange(day, days)
    /\ result' = NewResult(ada, price, adas, prices, days)
    /\ adas' = <<>>
    /\ prices' = <<>>
    /\ pc' = "summary"
    /\ UNCHANGED <<load, pool, args, ada, price, days, epochs_per_year, ada_per_year,
                   day, stdout, gainz, files, exit_code>>

\* main: the final line, then the graph when asked for (the write may fail).
MainSummary ==
    /\ pc = "summary"
    /\ stdout' = "final result"
    /\ gainz' = FAdd(Hundred, YieldAsPercentage(result, pool))
    /\ \E written \in BOOLEAN :
          files' = IF args.generate_graph /\ written THEN files \cup {"svg"} ELSE files
    /\ pc' = "exit"
    /\ exit_code' = 0
    /\ UNCHANGED <<load, pool, args, locals, result>>

Next ==
    \/ MainNoFile
    \/ MainBadJson
    \/ CalcBegin
    \/ RunDay
    \/ DayPanics
    \/ CalcReturn
    \/ MainSummary

Spec == Init /\ [][Next]_vars

----------------------------------------------------------------------------
(* Properties *)

One == <<1, 1>>

\* b^n for n >= 0, in the arithmetic above.
RECURSIVE Pow(_, _)
Pow(b, n) ==
    IF n = 0 THEN One
    ELSE LET h == Pow(b, n \div 2)
         IN  IF n % 2 = 0 THEN FMul(h, h) ELSE FMul(FMul(h, h), b)

\* 1 + annual_yield * epoch_in_days / 365.25: what one payout multiplies the
\* balance by.
PayoutFactor(p) ==
    FAdd(One, FDiv(FMul(p.annual_yield, FromU64(p.epoch_in_days)), DaysPerYear))

\* calculate_staked_pool has been entered.
Entered == load = "ok" /\ pc # "main"

\* calculate_staked_pool has returned its result to main().
Returned == pc = "summary" \/ (pc = "exit" /\ stdout = "final result")

\* C1: with epoch_in_days > 0, every step of the loop runs a day d with
\* 1 <= d <= days - 1; the payout (the balance grows by ada_per_year /
\* epochs_per_year and ada_per_year is recomputed from the new balance) is
\* applied on day d exactly when d > 0 and d mod epoch_in_days = 0, and on every
\* other day the balance and ada_per_year are left as they were.
C1_PayoutExactlyOnEpochDays ==
    [][(pc = "loop" /\ day' # day /\ pool.epoch_in_days > 0) =>
          /\ 1 <= day /\ day <= days - 1
          /\ IF day > 0 /\ day % pool.epoch_in_days = 0
             THEN /\ ada' = FAdd(ada, FDiv(ada_per_year, epochs_per_year))
                  /\ ada_per_year' = FMul(ada', pool.annual_yield)
             ELSE /\ ada' = ada
                  /\ ada_per_year' = ada_per_year]_vars

\* C1 witness: day 5 of a 5-day epoch has paid out and day 6, no pay day, has run.
C1_Witness ==
    /\ pc = "loop"
    /\ pool.epoch_in_days = 5
    /\ day = 7
    /\ pool.ada = <<1000, 1>>
    /\ ada = Zero

\* C2 as stated: whatever annual_yield is, no day of the loop lowers the balance.
C2_BalanceNeverDecreases ==
    [][pc = "loop" => FLeq(ada, ada')]_vars

\* C2 as amended: when the principal and annual_yield are both non-negative, no
\* day of the loop lowers the balance.
C2_BalanceNonDecreasingForNonNegativeYield ==
    [][(pc = "loop" /\ FLeq(Zero, pool.ada) /\ FLeq(Zero, pool.annual_yield)) =>
          FLeq(ada, ada')]_vars

\* C2 witness: a positive yield has raised the balance above the principal.
C2_Witness ==
    /\ pc = "loop"
    /\ pool.annual_yield = <<1, 20>>
    /\ pool.epoch_in_days = 487
    /\ day = 488
    /\ FLeq(pool.ada, ada)
    /\ ada # pool.ada

\* C3: after n days of the loop the price is initial_price * price_yield^n,
\* pay days or not, and the returned final price is
\* initial_price * price_yield^(days - 1).
C3_PriceFollowsDailyMultiplier ==
    /\ pc = "loop" => price = FMul(pool.initial_price, Pow(pool.price_yield, day - 1))
    /\ Returned =>
          result.final_ada_price = FMul(pool.initial_price, Pow(pool.price_yield, days - 1))

\* C3 witness: a one-year run with 73 pay days and price_yield = -1 has returned
\* the price after 365 multiplications.
C3_Witness ==
    /\ pc = "summary"
    /\ pool.price_yield = <<-1, 1>>
    /\ pool.epoch_in_days = 5
    /\ pool.years_holding = 1
    /\ result.final_ada_price = <<-5, 2>>

\* C4 as stated: days - 1 is years_holding * 365.25 rounded to a nearest integer
\* (either neighbour is accepted on a tie).
C4_DaysIsRounded ==
    Entered => Abs(4 * (days - 1) - 1461 * pool.years_holding) <= 2

\* C4 as amended: days - 1 is years_holding * 365.25 with the fraction dropped.
C4_DaysIsTruncated ==
    Entered => days = (1461 * pool.years_holding) \div 4 + 1

\* C4 witness: three years, 1095.75 days, give days = 1096.
C4_Witness ==
    /\ Entered
    /\ pool.years_holding = 3
    /\ days = 1096

\* C5 as stated: the returned histories hold days entries each when the graph
\* was asked for, and none otherwise.
C5_HistoryLengthIsDays ==
    pc = "summary" =>
        IF args.generate_graph
        THEN /\ Len(result.amount_historical) = days
             /\ Len(result.price_historical) = days
        ELSE /\ result.amount_historical = <<>>
             /\ result.price_historical = <<>>

\* C5 as amended: the returned histories hold days - 1 entries each when the
\* graph was asked for, and none otherwise; the i-th entry is the balance and
\* the price at the start of day i, so the first entry is the starting state.
C5_HistoryHoldsEveryLoopDay ==
    pc = "summary" =>
        IF args.generate_graph
        THEN /\ Len(result.amount_historical) = days - 1
             /\ Len(result.price_historical) = days - 1
             /\ \A i \in 1..(days - 1) :
                   /\ result.amount_historical[i] =
                         FMul(pool.ada,
                              Pow(PayoutFactor(pool), (i - 1) \div pool.epoch_in_days))
                   /\ result.price_historical[i] =
                         FMul(pool.initial_price, Pow(pool.price_yield, i - 1))
        ELSE /\ result.amount_historical = <<>>
             /\ result.price_historical = <<>>

\* C5 witness: a one-year run with the graph asked for has returned 365 entries,
\* the last one after payouts.
C5_Witness ==
    /\ pc = "summary"
    /\ args.generate_graph
    /\ pool.years_holding = 1
    /\ Len(result.amount_historical) = 365
    /\ result.amount_historical[365] # pool.ada
    /\ result.amount_historical[1] = pool.ada

\* C6: a configuration with epoch_in_days = 0 is rejected before the loop:
\* 365.25 / 0 is not evaluated, no day of the loop runs, the run does not end
\* in the panic of `day % 0`, and no result is returned.
C6_ZeroEpochRejectedBeforeLoop ==
    (Entered /\ pool.epoch_in_days = 0) =>
        /\ ~IsInf(epochs_per_year)
        /\ ~(pc = "exit" /\ exit_code = 101)
        /\ ~Returned

\* C7: when initial_price * ada = 0 the Gainz field of the final line is the
\* sentinel "N/A", and the final balance is 0 when the principal is 0.
C7_DegenerateYieldIsSentinel ==
    (pc = "exit" /\ stdout = "final result"
        /\ IsZero(FMul(pool.initial_price, pool.ada))) =>
        /\ Display(gainz) = "N/A"
        /\ IsZero(pool.ada) => result.final_ada_amount = Zero

\* C8: when pool.json is absent or malformed the process ends with a non-zero
\* exit code, no simulation and no final line; the exit code is 0 only when the
\* final line was printed.
C8_LoadFailureExitsNonZero ==
    pc = "exit" =>
        /\ load # "ok" => (exit_code # 0 /\ stdout # "final result" /\ day = 0)
        /\ exit_code = 0 => stdout = "final result"

\* C9: with years_holding = 0, days = 1, no day of the loop ever runs (not even
\* with epoch_in_days = 0), and the result is the starting state: the principal,
\* the initial price and two empty histories.
C9_ZeroYearsReturnsInitialState ==
    (Entered /\ pool.years_holding = 0) =>
        /\ days = 1
        /\ day = 1
        /\ ada = pool.ada
        /\ price = pool.initial_price
        /\ adas = <<>> /\ prices = <<>>
        /\ pc = "exit" => exit_code = 0
        /\ Returned =>
              /\ result.final_ada_amount = pool.ada
              /\ result.final_ada_price = pool.initial_price
              /\ result.amount_historical = <<>>
              /\ result.price_historical = <<>>

\* C9 witness: a zero-year run has ended, here with epoch_in_days = 0 and the
\* graph asked for.
C9_Witness ==
    /\ pc = "exit"
    /\ stdout = "final result"
    /\ pool.years_holding = 0
    /\ pool.epoch_in_days = 0
    /\ args.generate_graph
    /\ pool.ada = <<1000, 1>>

\* C10: at the start of every day of the loop ada_per_year = ada * annual_yield
\* and epochs_per_year = 365.25 / epoch_in_days, and after the k payouts of the
\* days before it the balance is the principal times
\* (1 + annual_yield * epoch_in_days / 365.25)^k.
C10_RewardRateFollowsBalance ==
    (pc = "loop" /\ pool.epoch_in_days > 0) =>
        /\ ada_per_year = FMul(ada, pool.annual_yield)
        /\ epochs_per_year = FDiv(DaysPerYear, FromU64(pool.epoch_in_days))
        /\ ada = FMul(pool.ada, Pow(PayoutFactor(pool), (day - 1) \div pool.epoch_in_days))

\* C10 witness: ten payouts that each double the balance have run.
C10_Witness ==
    /\ pc = "loop"
    /\ pool.epoch_in_days = 100
    /\ pool.annual_yield = <<1461, 400>>
    /\ day = 1001
    /\ ada = <<1024000, 1>>
    /\ ada_per_year = <<3740160, 1>>

====
